---- MODULE Spec2Model ----
(***************************************************************************)
(* Limit order book of src/main.rs: OrderBook with the bids and asks maps  *)
(* (price -> FIFO vector of orders), the orders index (id -> Order clone)  *)
(* and the match_id counter; operations add_order, remove_order and       *)
(* print_book.  add_order is modelled twice: as one action (Spec, SpecAny, *)
(* SpecFresh) and loop step by loop step (SpecSteps).                      *)
(* A BTreeMap is a function whose DOMAIN is the set of keys in the map; a  *)
(* Vec is a sequence (Rust index i is TLA+ index i + 1).                   *)
(***************************************************************************)
EXTENDS Integers, Sequences, FiniteSets, TLC

\* ----------------------------------------------------------- input domains
\* The values the caller draws the fields of an Order from.  The code only
\* compares prices and only adds, subtracts and compares quantities.
Ids == {1, 2}
Prices == {1, 2}
Qtys == {1, 2}

\* Values the code accepts as well: a price of 0 and quantities of 0 and -1.
AnyPrices == Prices \cup {0}
AnyQtys == Qtys \cup {0, -1}

\* ---------------------------------------------------------------- bounds
MaxResting == 2     \* cap on the number of orders resting in the book
MaxMatchId == 3     \* cap on the match_id counter

\* enum Side
Side == {"Buy", "Sell"}

\* struct Order, with a positive price and a positive quantity
Order == [id : Ids, price : Prices, quantity : Qtys, side : Side]

\* struct Order, any value the model draws
AnyOrder == [id : Ids, price : AnyPrices, quantity : AnyQtys, side : Side]

\* Option::None
None == [id |-> 0, price |-> 0, quantity |-> 0, side |-> "None"]

VARIABLES
    bids,       \* OrderBook.bids   : price -> Seq(Order)
    asks,       \* OrderBook.asks   : price -> Seq(Order)
    orders,     \* OrderBook.orders : id -> Order
    match_id,   \* OrderBook.match_id
    op,         \* the last call: "new", "add_order" or "remove_order"
    arg,        \* the Order passed to add_order, or the id passed to remove_order
    fills,      \* the Vec<Fill> returned by the last add_order
    ret,        \* the Option<Order> returned by the last remove_order
    printed,    \* the rows written by the last call (only print_book writes)
    pc,         \* where a step-by-step add_order stands; "idle" between calls
    loc         \* the locals of a step-by-step add_order

vars == <<bids, asks, orders, match_id, op, arg, fills, ret, printed, pc, loc>>
book == <<bids, asks, orders, match_id>>

\* ------------------------------------------------------- map / vec helpers
EmptyMap == [k \in {} |-> 0]

\* BTreeMap::remove / HashMap::remove (no effect when the key is absent)
MapRemove(m, k) == [x \in DOMAIN m \ {k} |-> m[x]]

\* BTreeMap / HashMap insert (overwrites the value of an existing key)
MapInsert(m, k, v) == [x \in DOMAIN m \cup {k} |-> IF x = k THEN v ELSE m[x]]

\* Vec::remove(i), i counted from 0
VecRemove(v, i) == [j \in 1..(Len(v) - 1) |-> IF j <= i THEN v[j] ELSE v[j + 1]]

\* i64::min
Min(a, b) == IF a <= b THEN a ELSE b

\* first key of BTreeMap::iter_mut()
FirstKey(m) == CHOOSE k \in DOMAIN m : \A x \in DOMAIN m : k <= x

\* first key of BTreeMap::iter_mut().rev()
LastKey(m) == CHOOSE k \in DOMAIN m : \A x \in DOMAIN m : k >= x

\* orders.iter().position(|o| o.id == id), counted from 0; -1 when there is none
Position(v, id) ==
    IF \E j \in 1..Len(v) : v[j].id = id
    THEN (CHOOSE j \in 1..Len(v) : v[j].id = id /\ \A h \in 1..(j - 1) : v[h].id # id) - 1
    ELSE -1

\* the locals of add_order: order (the incoming order, its quantity updated
\* after each level), price (ask_price / bid_price), remaining_quantity, i,
\* and opposing, the number of orders the opposing side held at the call
NoLocals == [order |-> None, price |-> 0, remaining_quantity |-> 0, i |-> 0, opposing |-> 0]

\* ------------------------------------------------------------ OrderBook::new
Init ==
    /\ bids = EmptyMap
    /\ asks = EmptyMap
    /\ orders = EmptyMap
    /\ match_id = 0
    /\ op = "new"
    /\ arg = None
    /\ fills = <<>>
    /\ ret = None
    /\ printed = <<>>
    /\ pc = "idle"
    /\ loc = NoLocals

\* ------------------------------------------------------ OrderBook::add_order
\* InnerLoop trading the whole quantity of the resting order each time.
RECURSIVE InnerLoopNoMin(_, _)
InnerLoopNoMin(s, price) ==
    IF s.i < Len(s.lvl) /\ s.rem > 0
    THEN LET o == s.lvl[s.i + 1]
             trade_quantity == o.quantity
             mid == s.mid + 1
             fl == Append(s.fl, [matched_id |-> mid, volume |-> trade_quantity, price |-> price])
             q == o.quantity - trade_quantity
             rem == s.rem - trade_quantity
         IN IF q = 0
            THEN InnerLoopNoMin([lvl |-> VecRemove(s.lvl, s.i), i |-> s.i, rem |-> rem,
                                 mid |-> mid, fl |-> fl, idx |-> MapRemove(s.idx, o.id)], price)
            ELSE InnerLoopNoMin([lvl |-> [s.lvl EXCEPT ![s.i + 1].quantity = q], i |-> s.i + 1,
                                 rem |-> rem, mid |-> mid, fl |-> fl, idx |-> s.idx], price)
    ELSE s

\* InnerLoop leaving the index entry of an order it consumed in full.
RECURSIVE InnerLoopKeepIndex(_, _)
InnerLoopKeepIndex(s, price) ==
    IF s.i < Len(s.lvl) /\ s.rem > 0
    THEN LET o == s.lvl[s.i + 1]
             trade_quantity == Min(s.rem, o.quantity)
             mid == s.mid + 1
             fl == Append(s.fl, [matched_id |-> mid, volume |-> trade_quantity, price |-> price])
             q == o.quantity - trade_quantity
             rem == s.rem - trade_quantity
         IN IF q = 0
            THEN InnerLoopKeepIndex([lvl |-> VecRemove(s.lvl, s.i), i |-> s.i, rem |-> rem,
                                     mid |-> mid, fl |-> fl, idx |-> s.idx], price)
            ELSE InnerLoopKeepIndex([lvl |-> [s.lvl EXCEPT ![s.i + 1].quantity = q], i |-> s.i + 1,
                                     rem |-> rem, mid |-> mid, fl |-> fl, idx |-> s.idx], price)
    ELSE s

\* InnerLoop leaving an order whose quantity reached zero in the level.
RECURSIVE InnerLoopKeepZero(_, _)
InnerLoopKeepZero(s, price) ==
    IF s.i < Len(s.lvl) /\ s.rem > 0
    THEN LET o == s.lvl[s.i + 1]
             trade_quantity == Min(s.rem, o.quantity)
             mid == s.mid + 1
             fl == Append(s.fl, [matched_id |-> mid, volume |-> trade_quantity, price |-> price])
             q == o.quantity - trade_quantity
             rem == s.rem - trade_quantity
         IN InnerLoopKeepZero([lvl |-> [s.lvl EXCEPT ![s.i + 1].quantity = q], i |-> s.i + 1,
                               rem |-> rem, mid |-> mid, fl |-> fl, idx |-> s.idx], price)
    ELSE s

\* InnerLoop stamping a fill with the counter's value before the increment.
RECURSIVE InnerLoopStaleId(_, _)
InnerLoopStaleId(s, price) ==
    IF s.i < Len(s.lvl) /\ s.rem > 0
    THEN LET o == s.lvl[s.i + 1]
             trade_quantity == Min(s.rem, o.quantity)
             mid == s.mid + 1
             fl == Append(s.fl, [matched_id |-> s.mid, volume |-> trade_quantity, price |-> price])
             q == o.quantity - trade_quantity
             rem == s.rem - trade_quantity
         IN IF q = 0
            THEN InnerLoopStaleId([lvl |-> VecRemove(s.lvl, s.i), i |-> s.i, rem |-> rem,
                                   mid |-> mid, fl |-> fl, idx |-> MapRemove(s.idx, o.id)], price)
            ELSE InnerLoopStaleId([lvl |-> [s.lvl EXCEPT ![s.i + 1].quantity = q], i |-> s.i + 1,
                                   rem |-> rem, mid |-> mid, fl |-> fl, idx |-> s.idx], price)
    ELSE s

\* InnerLoop taking the orders of the level from the back of the vector.
RECURSIVE InnerLoopFromBack(_, _)
InnerLoopFromBack(s, price) ==
    IF s.i < Len(s.lvl) /\ s.rem > 0
    THEN LET at == Len(s.lvl) - s.i
             o == s.lvl[at]
             trade_quantity == Min(s.rem, o.quantity)
             mid == s.mid + 1
             fl == Append(s.fl, [matched_id |-> mid, volume |-> trade_quantity, price |-> price])
             q == o.quantity - trade_quantity
             rem == s.rem - trade_quantity
         IN IF q = 0
            THEN InnerLoopFromBack([lvl |-> VecRemove(s.lvl, at - 1), i |-> s.i, rem |-> rem,
                                    mid |-> mid, fl |-> fl, idx |-> MapRemove(s.idx, o.id)], price)
            ELSE InnerLoopFromBack([lvl |-> [s.lvl EXCEPT ![at].quantity = q], i |-> s.i + 1,
                                    rem |-> rem, mid |-> mid, fl |-> fl, idx |-> s.idx], price)
    ELSE s

\* The inner while loop over one price level.  s is the loop state:
\* lvl (the level's vector), i, rem (remaining_quantity), mid (self.match_id),
\* fl (fills), idx (self.orders); price is the key of the level.
RECURSIVE InnerLoop(_, _)
InnerLoop(s, price) ==
    IF s.i < Len(s.lvl) /\ s.rem > 0
    THEN LET o == s.lvl[s.i + 1]
             trade_quantity == Min(s.rem, o.quantity)
             mid == s.mid + 1
             fl == Append(s.fl, [matched_id |-> mid, volume |-> trade_quantity, price |-> price])
             q == o.quantity - trade_quantity
             rem == s.rem - trade_quantity
         IN IF q = 0
            THEN InnerLoop([lvl |-> VecRemove(s.lvl, s.i), i |-> s.i, rem |-> rem,
                            mid |-> mid, fl |-> fl, idx |-> MapRemove(s.idx, o.id)], price)
            ELSE InnerLoop([lvl |-> [s.lvl EXCEPT ![s.i + 1].quantity = q], i |-> s.i + 1,
                            rem |-> rem, mid |-> mid, fl |-> fl, idx |-> s.idx], price)
    ELSE s

\* One pass of the level found by the outer loop: the inner loop, then
\* order.quantity = remaining_quantity and the removal of an emptied level.
\* b is the call state: opp (the opposing map), idx, mid, fl, qty (order.quantity).
MatchLevel(b, price) ==
    LET r == InnerLoop([lvl |-> b.opp[price], i |-> 0, rem |-> b.qty,
                        mid |-> b.mid, fl |-> b.fl, idx |-> b.idx], price)
    IN [opp |-> IF r.lvl = <<>> THEN MapRemove(b.opp, price)
                ELSE [b.opp EXCEPT ![price] = r.lvl],
        idx |-> r.idx, mid |-> r.mid, fl |-> r.fl, qty |-> r.rem]

\* BuyLoop walking the asks from the highest price.
RECURSIVE BuyLoopFromHighest(_, _)
BuyLoopFromHighest(b, order_price) ==
    IF b.qty > 0
    THEN IF DOMAIN b.opp # {}
         THEN LET ask_price == LastKey(b.opp)
              IN IF order_price >= ask_price
                 THEN BuyLoopFromHighest(MatchLevel(b, ask_price), order_price)
                 ELSE b
         ELSE b
    ELSE b

\* BuyLoop crossing only when the order's price is strictly above the ask.
RECURSIVE BuyLoopStrict(_, _)
BuyLoopStrict(b, order_price) ==
    IF b.qty > 0
    THEN IF DOMAIN b.opp # {}
         THEN LET ask_price == FirstKey(b.opp)
              IN IF order_price > ask_price
                 THEN BuyLoopStrict(MatchLevel(b, ask_price), order_price)
                 ELSE b
         ELSE b
    ELSE b

\* The outer while loop of the Buy branch: walks asks from the lowest price.
RECURSIVE BuyLoop(_, _)
BuyLoop(b, order_price) ==
    IF b.qty > 0
    THEN IF DOMAIN b.opp # {}
         THEN LET ask_price == FirstKey(b.opp)
              IN IF order_price >= ask_price
                 THEN BuyLoop(MatchLevel(b, ask_price), order_price)
                 ELSE b
         ELSE b
    ELSE b

\* SellLoop with the crossing test turned round.
RECURSIVE SellLoopInverted(_, _)
SellLoopInverted(b, order_price) ==
    IF b.qty > 0
    THEN IF DOMAIN b.opp # {}
         THEN LET bid_price == LastKey(b.opp)
              IN IF order_price >= bid_price
                 THEN SellLoopInverted(MatchLevel(b, bid_price), order_price)
                 ELSE b
         ELSE b
    ELSE b

\* SellLoop recording its fills at the incoming order's price.
RECURSIVE SellLoopOwnPrice(_, _)
SellLoopOwnPrice(b, order_price) ==
    IF b.qty > 0
    THEN IF DOMAIN b.opp # {}
         THEN LET bid_price == LastKey(b.opp)
                  r == MatchLevel(b, bid_price)
                  fl == [n \in 1..Len(r.fl) |->
                            IF n > Len(b.fl) THEN [r.fl[n] EXCEPT !.price = order_price]
                            ELSE r.fl[n]]
              IN IF order_price <= bid_price
                 THEN SellLoopOwnPrice([r EXCEPT !.fl = fl], order_price)
                 ELSE b
         ELSE b
    ELSE b

\* The outer while loop of the Sell branch: walks bids from the highest price.
RECURSIVE SellLoop(_, _)
SellLoop(b, order_price) ==
    IF b.qty > 0
    THEN IF DOMAIN b.opp # {}
         THEN LET bid_price == LastKey(b.opp)
              IN IF order_price <= bid_price
                 THEN SellLoop(MatchLevel(b, bid_price), order_price)
                 ELSE b
         ELSE b
    ELSE b

\* PushOrder putting the order at the front of the level.
PushOrderFront(m, order) ==
    MapInsert(m, order.price,
              <<order>> \o (IF order.price \in DOMAIN m THEN m[order.price] ELSE <<>>))

\* self.<side>.entry(order.price).or_insert_with(Vec::new).push(order)
PushOrder(m, order) ==
    MapInsert(m, order.price,
              Append(IF order.price \in DOMAIN m THEN m[order.price] ELSE <<>>, order))

\* AddResult resting the order in its level without registering it.
AddResultNoIndex(order) ==
    LET start == [opp |-> IF order.side = "Buy" THEN asks ELSE bids,
                  idx |-> orders, mid |-> match_id, fl |-> <<>>, qty |-> order.quantity]
        b == IF order.side = "Buy" THEN BuyLoop(start, order.price)
             ELSE SellLoop(start, order.price)
        rest == [order EXCEPT !.quantity = b.qty]
        own == IF order.side = "Buy" THEN bids ELSE asks
    IN [opp |-> b.opp,
        own |-> IF b.qty > 0 THEN PushOrder(own, rest) ELSE own,
        idx |-> b.idx,
        mid |-> b.mid, fl |-> b.fl, qty |-> b.qty]

\* AddResult resting the order with the quantity it was submitted with.
AddResultRestFull(order) ==
    LET start == [opp |-> IF order.side = "Buy" THEN asks ELSE bids,
                  idx |-> orders, mid |-> match_id, fl |-> <<>>, qty |-> order.quantity]
        b == IF order.side = "Buy" THEN BuyLoop(start, order.price)
             ELSE SellLoop(start, order.price)
        own == IF order.side = "Buy" THEN bids ELSE asks
    IN [opp |-> b.opp,
        own |-> IF b.qty > 0 THEN PushOrder(own, order) ELSE own,
        idx |-> IF b.qty > 0 THEN MapInsert(b.idx, order.id, order) ELSE b.idx,
        mid |-> b.mid, fl |-> b.fl, qty |-> b.qty]

\* The state after add_order(order): the matching loop of the order's side
\* and the resting of the residual.
AddResult(order) ==
    LET start == [opp |-> IF order.side = "Buy" THEN asks ELSE bids,
                  idx |-> orders, mid |-> match_id, fl |-> <<>>, qty |-> order.quantity]
        b == IF order.side = "Buy" THEN BuyLoop(start, order.price)
             ELSE SellLoop(start, order.price)
        rest == [order EXCEPT !.quantity = b.qty]
        own == IF order.side = "Buy" THEN bids ELSE asks
    IN [opp |-> b.opp,
        own |-> IF b.qty > 0 THEN PushOrder(own, rest) ELSE own,
        idx |-> IF b.qty > 0 THEN MapInsert(b.idx, order.id, rest) ELSE b.idx,
        mid |-> b.mid, fl |-> b.fl, qty |-> b.qty]

\* number of orders stored in a map
RECURSIVE Resting(_)
Resting(m) ==
    IF DOMAIN m = {} THEN 0
    ELSE LET k == FirstKey(m) IN Len(m[k]) + Resting(MapRemove(m, k))

add_order(order) ==
    LET r == AddResult(order)
    IN /\ r.mid <= MaxMatchId
       /\ Resting(r.opp) + Resting(r.own) <= MaxResting
       /\ bids' = IF order.side = "Buy" THEN r.own ELSE r.opp
       /\ asks' = IF order.side = "Buy" THEN r.opp ELSE r.own
       /\ orders' = r.idx
       /\ match_id' = r.mid
       /\ op' = "add_order"
       /\ arg' = order
       /\ fills' = r.fl
       /\ ret' = None
       /\ printed' = <<>>
       /\ UNCHANGED <<pc, loc>>

\* --------------------------------------------------- OrderBook::remove_order
\* RemoveResult leaving the level in the map when its vector became empty.
RemoveResultKeepLevel(id) ==
    IF id \in DOMAIN orders
    THEN LET order == orders[id]
             idx == MapRemove(orders, id)
             book_side == IF order.side = "Buy" THEN bids ELSE asks
         IN IF order.price \in DOMAIN book_side
            THEN LET lvl == book_side[order.price]
                     pos == Position(lvl, order.id)
                 IN IF pos >= 0
                    THEN [side |-> order.side, idx |-> idx, ret |-> order,
                          book_side |-> [book_side EXCEPT ![order.price] = VecRemove(lvl, pos)]]
                    ELSE [side |-> order.side, idx |-> idx, ret |-> None, book_side |-> book_side]
            ELSE [side |-> order.side, idx |-> idx, ret |-> None, book_side |-> book_side]
    ELSE [side |-> "Buy", idx |-> orders, ret |-> None, book_side |-> bids]

\* RemoveResult with the arms of the match on order.side exchanged.
RemoveResultWrongSide(id) ==
    IF id \in DOMAIN orders
    THEN LET order == orders[id]
             idx == MapRemove(orders, id)
             side == IF order.side = "Buy" THEN "Sell" ELSE "Buy"
             book_side == IF side = "Buy" THEN bids ELSE asks
         IN IF order.price \in DOMAIN book_side
            THEN LET lvl == book_side[order.price]
                     pos == Position(lvl, order.id)
                 IN IF pos >= 0
                    THEN LET left == VecRemove(lvl, pos)
                         IN [side |-> side, idx |-> idx, ret |-> order,
                             book_side |-> IF left = <<>> THEN MapRemove(book_side, order.price)
                                           ELSE [book_side EXCEPT ![order.price] = left]]
                    ELSE [side |-> side, idx |-> idx, ret |-> None, book_side |-> book_side]
            ELSE [side |-> side, idx |-> idx, ret |-> None, book_side |-> book_side]
    ELSE [side |-> "Buy", idx |-> orders, ret |-> None, book_side |-> bids]

\* The state after remove_order(id): the index entry is taken out first, then
\* the order is looked for in the level the entry names.
RemoveResult(id) ==
    IF id \in DOMAIN orders
    THEN LET order == orders[id]
             idx == MapRemove(orders, id)
             book_side == IF order.side = "Buy" THEN bids ELSE asks
         IN IF order.price \in DOMAIN book_side
            THEN LET lvl == book_side[order.price]
                     pos == Position(lvl, order.id)
                 IN IF pos >= 0
                    THEN LET left == VecRemove(lvl, pos)
                         IN [side |-> order.side, idx |-> idx, ret |-> order,
                             book_side |-> IF left = <<>> THEN MapRemove(book_side, order.price)
                                           ELSE [book_side EXCEPT ![order.price] = left]]
                    ELSE [side |-> order.side, idx |-> idx, ret |-> None, book_side |-> book_side]
            ELSE [side |-> order.side, idx |-> idx, ret |-> None, book_side |-> book_side]
    ELSE [side |-> "Buy", idx |-> orders, ret |-> None, book_side |-> bids]

remove_order(id) ==
    LET r == RemoveResult(id)
    IN /\ bids' = IF r.side = "Buy" THEN r.book_side ELSE bids
       /\ asks' = IF r.side = "Sell" THEN r.book_side ELSE asks
       /\ orders' = r.idx
       /\ match_id' = match_id
       /\ op' = "remove_order"
       /\ arg' = [None EXCEPT !.id = id]
       /\ fills' = <<>>
       /\ ret' = r.ret
       /\ printed' = <<>>
       /\ UNCHANGED <<pc, loc>>

\* ----------------------------------------------------- OrderBook::print_book
\* the row print_book writes for each order of a level: id, side, quantity
\* and the level's key
RowsOf(price, v) ==
    [j \in 1..Len(v) |-> [id |-> v[j].id, side |-> v[j].side,
                          quantity |-> v[j].quantity, price |-> price]]

\* the rows of a map walked with iter().rev(): from the last key to the first
RECURSIVE RevRows(_)
RevRows(m) ==
    IF DOMAIN m = {} THEN <<>>
    ELSE LET k == LastKey(m) IN RowsOf(k, m[k]) \o RevRows(MapRemove(m, k))

\* the rows of a map walked with iter(): from the first key to the last
RECURSIVE FwdRows(_)
FwdRows(m) ==
    IF DOMAIN m = {} THEN <<>>
    ELSE LET k == FirstKey(m) IN RowsOf(k, m[k]) \o FwdRows(MapRemove(m, k))

\* the line of dashes between the asks and the bids
Divider == [id |-> 0, side |-> "-", quantity |-> 0, price |-> 0]

\* print_book walking the bids without rev().
PrintBookRowsBidsForward == RevRows(asks) \o <<Divider>> \o FwdRows(bids)

\* what print_book writes after its two header lines
PrintBookRows == RevRows(asks) \o <<Divider>> \o RevRows(bids)

print_book ==
    /\ printed' = PrintBookRows
    /\ op' = "print_book"
    /\ arg' = None
    /\ fills' = <<>>
    /\ ret' = None
    /\ UNCHANGED <<bids, asks, orders, match_id, pc, loc>>

AddOrder == \E order \in Order : add_order(order)

RemoveOrder == \E id \in Ids : remove_order(id)

PrintBook == print_book

Next == AddOrder \/ RemoveOrder \/ PrintBook

Spec == Init /\ [][Next]_vars

\* The same book driven by a caller that never submits an id while an order
\* of that id is stored in a level.
AddFreshOrder ==
    \E order \in Order :
        /\ \A p \in DOMAIN bids : \A j \in 1..Len(bids[p]) : bids[p][j].id # order.id
        /\ \A p \in DOMAIN asks : \A j \in 1..Len(asks[p]) : asks[p][j].id # order.id
        /\ add_order(order)

RemoveFreshOrder == \E id \in Ids : remove_order(id)

PrintFreshBook == print_book

NextFresh == AddFreshOrder \/ RemoveFreshOrder \/ PrintFreshBook

SpecFresh == Init /\ [][NextFresh]_vars

\* The same book driven with every Order value, degenerate ones included.
AddAnyOrder == \E order \in AnyOrder : add_order(order)

RemoveAnyOrder == \E id \in Ids : remove_order(id)

PrintAnyBook == print_book

NextAny == AddAnyOrder \/ RemoveAnyOrder \/ PrintAnyBook

SpecAny == Init /\ [][NextAny]_vars

\* ------------------------------------- add_order, one loop step at a time
\* the map the incoming order is matched against
Opposing == IF loc.order.side = "Buy" THEN asks ELSE bids

\* the level the outer loop looks at: the first ask of iter_mut() for a Buy,
\* the first bid of iter_mut().rev() for a Sell
BestKey == IF loc.order.side = "Buy" THEN FirstKey(Opposing) ELSE LastKey(Opposing)

\* the test of the outer while, of the if let and of the price comparison
EntersLevel ==
    /\ loc.order.quantity > 0
    /\ DOMAIN Opposing # {}
    /\ IF loc.order.side = "Buy" THEN loc.order.price >= BestKey
       ELSE loc.order.price <= BestKey

\* the test of the inner while
InnerContinues ==
    loc.i < Len(Opposing[loc.price]) /\ loc.remaining_quantity > 0

\* the orders the step-by-step calls draw: those of Order and the same with
\* quantity 0 or -1
StepOrder == [id : Ids, price : Prices, quantity : AnyQtys, side : Side]

\* the call: the caller hands the order over; fills is the empty vector
CallAddOrder ==
    \E order \in StepOrder :
        LET r == AddResult(order)
        IN /\ pc = "idle"
           /\ r.mid <= MaxMatchId
           /\ Resting(r.opp) + Resting(r.own) <= MaxResting
           /\ pc' = "outer"
           /\ loc' = [order |-> order, price |-> 0, remaining_quantity |-> 0, i |-> 0,
                      opposing |-> Resting(IF order.side = "Buy" THEN asks ELSE bids)]
           /\ op' = "add_order"
           /\ arg' = order
           /\ fills' = <<>>
           /\ ret' = None
           /\ printed' = <<>>
           /\ UNCHANGED <<bids, asks, orders, match_id>>

\* the head of the outer loop: enter the best opposing level or leave the loop
OuterTest ==
    /\ pc = "outer"
    /\ IF EntersLevel
       THEN /\ loc' = [loc EXCEPT !.price = BestKey,
                                  !.remaining_quantity = loc.order.quantity,
                                  !.i = 0]
            /\ pc' = "inner"
       ELSE /\ loc' = loc
            /\ pc' = "rest"
    /\ UNCHANGED <<bids, asks, orders, match_id, op, arg, fills, ret, printed>>

\* the state after one pass of the body of the inner loop
BodyResult ==
    LET lvl == Opposing[loc.price]
        o == lvl[loc.i + 1]
        trade_quantity == Min(loc.remaining_quantity, o.quantity)
        q == o.quantity - trade_quantity
    IN [mid |-> match_id + 1,
        fill |-> [matched_id |-> match_id + 1, volume |-> trade_quantity, price |-> loc.price],
        rem |-> loc.remaining_quantity - trade_quantity,
        lvl |-> IF q = 0 THEN VecRemove(lvl, loc.i) ELSE [lvl EXCEPT ![loc.i + 1].quantity = q],
        idx |-> IF q = 0 THEN MapRemove(orders, o.id) ELSE orders,
        i |-> IF q = 0 THEN loc.i ELSE loc.i + 1]

\* one pass of the body of the inner loop
InnerBody ==
    /\ pc = "inner"
    /\ InnerContinues
    /\ LET r == BodyResult
       IN /\ match_id' = r.mid
          /\ fills' = Append(fills, r.fill)
          /\ orders' = r.idx
          /\ loc' = [loc EXCEPT !.remaining_quantity = r.rem, !.i = r.i]
          /\ IF loc.order.side = "Buy"
             THEN asks' = [asks EXCEPT ![loc.price] = r.lvl] /\ bids' = bids
             ELSE bids' = [bids EXCEPT ![loc.price] = r.lvl] /\ asks' = asks
    /\ UNCHANGED <<pc, op, arg, ret, printed>>

\* InnerExit leaving the emptied level in the map.
InnerExitKeepLevel ==
    /\ pc = "inner"
    /\ ~InnerContinues
    /\ loc' = [loc EXCEPT !.order.quantity = loc.remaining_quantity]
    /\ pc' = "outer"
    /\ UNCHANGED <<bids, asks, orders, match_id, op, arg, fills, ret, printed>>

\* the end of the inner loop: order.quantity = remaining_quantity, and the
\* level is removed from the map when its vector is empty
InnerExit ==
    /\ pc = "inner"
    /\ ~InnerContinues
    /\ loc' = [loc EXCEPT !.order.quantity = loc.remaining_quantity]
    /\ IF Opposing[loc.price] = <<>>
       THEN IF loc.order.side = "Buy"
            THEN asks' = MapRemove(asks, loc.price) /\ bids' = bids
            ELSE bids' = MapRemove(bids, loc.price) /\ asks' = asks
       ELSE UNCHANGED <<bids, asks>>
    /\ pc' = "outer"
    /\ UNCHANGED <<orders, match_id, op, arg, fills, ret, printed>>

\* after the outer loop: the order rests when it has quantity left; return
\* (the locals end with the call)
RestStep ==
    /\ pc = "rest"
    /\ IF loc.order.quantity > 0
       THEN /\ orders' = MapInsert(orders, loc.order.id, loc.order)
            /\ IF loc.order.side = "Buy"
               THEN bids' = PushOrder(bids, loc.order) /\ asks' = asks
               ELSE asks' = PushOrder(asks, loc.order) /\ bids' = bids
       ELSE UNCHANGED <<bids, asks, orders>>
    /\ pc' = "idle"
    /\ loc' = NoLocals
    /\ UNCHANGED <<match_id, op, arg, fills, ret, printed>>

\* remove_order between two calls of add_order
RemoveStep == pc = "idle" /\ \E id \in Ids : remove_order(id)

NextSteps ==
    CallAddOrder \/ OuterTest \/ InnerBody \/ InnerExit \/ RestStep \/ RemoveStep

\* add_order is synchronous code: once called, each of its steps is taken
SpecSteps ==
    /\ Init
    /\ [][NextSteps]_vars
    /\ WF_vars(OuterTest)
    /\ WF_vars(InnerBody)
    /\ WF_vars(InnerExit)
    /\ WF_vars(RestStep)

TypeOK ==
    /\ match_id \in 0..MaxMatchId
    /\ DOMAIN bids \subseteq AnyPrices
    /\ DOMAIN asks \subseteq AnyPrices
    /\ DOMAIN orders \subseteq Ids

\* ------------------------------------------------- vocabulary of the claims
\* the vector stored under price p, empty when the map has no such key
LevelOf(m, p) == IF p \in DOMAIN m THEN m[p] ELSE <<>>

\* the orders of a map from the lowest price up, each level in vector order
RECURSIVE FlatAsc(_)
FlatAsc(m) ==
    IF DOMAIN m = {} THEN <<>>
    ELSE LET k == FirstKey(m) IN m[k] \o FlatAsc(MapRemove(m, k))

\* the orders of a map from the highest price down, each level in vector order
RECURSIVE FlatDesc(_)
FlatDesc(m) ==
    IF DOMAIN m = {} THEN <<>>
    ELSE LET k == LastKey(m) IN m[k] \o FlatDesc(MapRemove(m, k))

\* the side an incoming order of side sd matches against, and its own side
OppOf(sd, b, a) == IF sd = "Buy" THEN a ELSE b
OwnOf(sd, b, a) == IF sd = "Buy" THEN b ELSE a

\* the opposing orders in the order an incoming order of side sd meets them
Priority(sd, b, a) == IF sd = "Buy" THEN FlatAsc(a) ELSE FlatDesc(b)

\* sum of the volumes of a sequence of fills
RECURSIVE SumVolume(_)
SumVolume(fl) == IF fl = <<>> THEN 0 ELSE fl[1].volume + SumVolume(Tail(fl))

\* sum of the quantities of a sequence of orders
RECURSIVE SumQuantity(_)
SumQuantity(v) == IF v = <<>> THEN 0 ELSE v[1].quantity + SumQuantity(Tail(v))

\* the quantity the incoming order of the step was left with: what the step
\* appended to its own side, or zero when nothing was appended
RestedQuantity(own, ownAfter, order) ==
    IF Resting(ownAfter) > Resting(own)
    THEN LevelOf(ownAfter, order.price)[Len(LevelOf(ownAfter, order.price))].quantity
    ELSE 0

\* the ids stored in the levels of both sides
RestingIds == {FlatAsc(bids)[n].id : n \in 1..Len(FlatAsc(bids))}
              \cup {FlatAsc(asks)[n].id : n \in 1..Len(FlatAsc(asks))}

\* no id is stored twice in the levels of the book
DistinctIds == Cardinality(RestingIds) = Len(FlatAsc(bids)) + Len(FlatAsc(asks))

\* the vector v without the orders of the given id
Without(v, id) == SelectSeq(v, LAMBDA o : o.id # id)

\* ----------------------------------------------------------------- claims
\* C1: no crossed book. After every add_order call returns, one side is
\* empty or the highest bid price is strictly below the lowest ask price.
C1_NoCrossedBook ==
    op = "add_order" =>
        \/ DOMAIN bids = {}
        \/ DOMAIN asks = {}
        \/ LastKey(bids) < FirstKey(asks)

\* an add_order that matched and left orders on both sides
C1_Witness ==
    /\ op = "add_order"
    /\ fills # <<>>
    /\ DOMAIN bids # {}
    /\ DOMAIN asks # {}

\* new is old with its first k orders taken out and at most the next one
\* reduced in quantity; everything behind is untouched
ConsumedFromFront(old, new) ==
    \E k \in 0..Len(old) :
        /\ Len(new) = Len(old) - k
        /\ \A j \in 1..Len(new) :
            IF j = 1
            THEN /\ [new[1] EXCEPT !.quantity = old[k + 1].quantity] = old[k + 1]
                 /\ new[1].quantity > 0
                 /\ new[1].quantity <= old[k + 1].quantity
            ELSE new[j] = old[k + j]

\* the quantity taken by the step from the n-th order of the level old
TakenFrom(old, new, n) ==
    LET k == Len(old) - Len(new)
    IN IF n <= k THEN old[n].quantity ELSE old[n].quantity - new[n - k].quantity

\* new is old with at most one order deleted, the others in the same order
OneDeleted(old, new) ==
    \/ new = old
    \/ \E i \in 0..(Len(old) - 1) : new = VecRemove(old, i)

\* C2: time priority. In every add_order, each opposing level is consumed
\* from the front: an order is filled only when every order before it in
\* its level is removed in full, a partially filled order stays at the
\* front, and the fills at one price take the level's orders in vector
\* order; vector order is arrival order, because add_order appends the
\* incoming order at the back of its level and remove_order keeps the
\* order of the others.
C2_TimePriority ==
    [][/\ op' = "add_order" =>
            LET opp == OppOf(arg'.side, bids, asks)
                oppAfter == OppOf(arg'.side, bids', asks')
                own == OwnOf(arg'.side, bids, asks)
                ownAfter == OwnOf(arg'.side, bids', asks')
            IN /\ \A p \in DOMAIN opp :
                    LET old == opp[p]
                        new == LevelOf(oppAfter, p)
                        at == SelectSeq(fills', LAMBDA f : f.price = p)
                    IN /\ ConsumedFromFront(old, new)
                       /\ \A n \in 1..Len(old) :
                            IF n <= Len(at)
                            THEN at[n].volume = TakenFrom(old, new, n) /\ at[n].volume > 0
                            ELSE TakenFrom(old, new, n) = 0
                       /\ Len(at) <= Len(old)
               /\ \A p \in DOMAIN own \cup DOMAIN ownAfter :
                    LET old == LevelOf(own, p)
                        new == LevelOf(ownAfter, p)
                    IN \/ new = old
                       \/ /\ p = arg'.price
                          /\ Len(new) = Len(old) + 1
                          /\ SubSeq(new, 1, Len(old)) = old
                          /\ new[Len(new)].id = arg'.id
       /\ op' = "remove_order" =>
            /\ \A p \in DOMAIN bids : OneDeleted(bids[p], LevelOf(bids', p))
            /\ \A p \in DOMAIN asks : OneDeleted(asks[p], LevelOf(asks', p))
      ]_vars

\* an add_order with two fills at one price that left the second order it
\* touched resting, partially filled, at the front of that level
C2_Witness ==
    /\ op = "add_order"
    /\ Len(fills) = 2
    /\ fills[1].price = fills[2].price
    /\ LevelOf(OppOf(arg.side, bids, asks), fills[1].price) # <<>>

\* C3: conservation of quantity. For an add_order with positive quantity,
\* the incoming quantity equals the sum of the fill volumes plus the
\* quantity the order is left with; each opposing order's quantity before
\* equals the volume of its fill plus its quantity afterwards; the quantity
\* removed from the opposing side equals the sum of the fill volumes.
C3_Conservation ==
    [][(op' = "add_order" /\ arg'.quantity > 0) =>
            LET before == Priority(arg'.side, bids, asks)
                after == Priority(arg'.side, bids', asks')
                k == Len(before) - Len(after)
                left == RestedQuantity(OwnOf(arg'.side, bids, asks),
                                       OwnOf(arg'.side, bids', asks'), arg')
            IN /\ arg'.quantity = SumVolume(fills') + left
               /\ k >= 0
               /\ \A n \in 1..Len(before) :
                    before[n].quantity =
                        (IF n <= Len(fills') THEN fills'[n].volume ELSE 0)
                        + (IF n <= k THEN 0 ELSE after[n - k].quantity)
               /\ SumQuantity(before) - SumQuantity(after) = SumVolume(fills')
      ]_vars

\* an add_order that was filled in part and rests with what was left
C3_Witness ==
    /\ op = "add_order"
    /\ fills # <<>>
    /\ arg.id \in DOMAIN orders
    /\ orders[arg.id].side = arg.side
    /\ orders[arg.id].quantity > 0
    /\ orders[arg.id].quantity + SumVolume(fills) = arg.quantity

\* the id is stored in exactly one place of the book
StoredOnce(id) ==
    Len(Without(FlatAsc(bids), id)) + Len(Without(FlatAsc(asks), id))
        = Len(FlatAsc(bids)) + Len(FlatAsc(asks)) - 1

\* C4: cancel returns the final state of the removed order. The Order
\* returned by remove_order for an order resting in the book (its id stored
\* once) carries the quantity that order has in its price level when it is
\* cancelled.
C4_CancelReturnsRemaining ==
    [][(op' = "remove_order" /\ ret' # None /\ StoredOnce(arg'.id)) =>
            LET lvl == LevelOf(OwnOf(ret'.side, bids, asks), ret'.price)
                pos == Position(lvl, arg'.id)
            IN /\ pos >= 0
               /\ ret'.quantity = lvl[pos + 1].quantity
      ]_vars

\* C5: every fill's price is the price of the resting order it was matched
\* against: the n-th fill of a call carries the price of the n-th opposing
\* order in priority order, which is the key of that order's level; a Buy
\* is never filled above its limit, a Sell never below its limit.
C5_FillAtRestingPrice ==
    [][op' = "add_order" =>
            LET opp == OppOf(arg'.side, bids, asks)
                before == Priority(arg'.side, bids, asks)
            IN /\ \A p \in DOMAIN opp : \A j \in 1..Len(opp[p]) : opp[p][j].price = p
               /\ Len(fills') <= Len(before)
               /\ \A n \in 1..Len(fills') :
                    /\ fills'[n].price = before[n].price
                    /\ arg'.side = "Buy" => fills'[n].price <= arg'.price
                    /\ arg'.side = "Sell" => fills'[n].price >= arg'.price
      ]_vars

\* an add_order filled at a price that differs from its own
C5_Witness ==
    /\ op = "add_order"
    /\ fills # <<>>
    /\ fills[1].price # arg.price

\* C6: cancellation removes exactly one order. remove_order(id) for an id
\* resting in a book whose ids are distinct leaves that id in no level and
\* not in the index, every other order unchanged and in place, deletes the
\* level only when it became empty, and leaves the match counter unchanged.
C6_CancelRemovesExactlyOne ==
    [][(op' = "remove_order" /\ arg'.id \in RestingIds /\ DistinctIds) =>
            /\ arg'.id \notin RestingIds'
            /\ arg'.id \notin DOMAIN orders'
            /\ \A p \in DOMAIN bids \cup DOMAIN bids' :
                    /\ LevelOf(bids', p) = Without(LevelOf(bids, p), arg'.id)
                    /\ p \in DOMAIN bids' <=> Without(LevelOf(bids, p), arg'.id) # <<>>
            /\ \A p \in DOMAIN asks \cup DOMAIN asks' :
                    /\ LevelOf(asks', p) = Without(LevelOf(asks, p), arg'.id)
                    /\ p \in DOMAIN asks' <=> Without(LevelOf(asks, p), arg'.id) # <<>>
            /\ match_id' = match_id
      ]_vars

\* C7: cancel of an unknown id is a no-op failure. remove_order(id) for an
\* id in no level returns None, and whenever remove_order returns None the
\* bids, the asks, the index and the match counter are what they were.
C7_UnknownCancelNoOp ==
    [][op' = "remove_order" =>
            /\ arg'.id \notin RestingIds => ret' = None
            /\ ret' = None => book' = book
      ]_vars

\* a remove_order of an id that is not in the book, while another order rests
C7_Witness ==
    /\ op = "remove_order"
    /\ ret = None
    /\ arg.id \notin RestingIds
    /\ RestingIds # {}

\* C8: degenerate orders are rejected without effect. An add_order whose
\* quantity or price is not positive returns no fills and leaves the bids,
\* the asks, the index and the match counter as they were.
C8_DegenerateRejected ==
    [][(op' = "add_order" /\ (arg'.quantity <= 0 \/ arg'.price <= 0)) =>
            /\ fills' = <<>>
            /\ book' = book
      ]_vars

\* C9: the id -> single-order invariant. In every reachable state each id
\* is stored at most once across the levels of both sides, and every id
\* stored in a level has an entry in the index.
C9_SingleOrderPerId ==
    /\ DistinctIds
    /\ RestingIds \subseteq DOMAIN orders

\* C10: match ids are strictly increasing. The counter starts at 0; the
\* n-th fill of an add_order carries the counter's value before the call
\* plus n, and the counter ends at the id of the last fill, so the first
\* fill of a call is above every earlier fill (none of which is above the
\* counter); remove_order and an add_order without fills leave the counter.
C10_MatchIdsIncrease ==
    /\ match_id = 0
    /\ [][/\ \A n \in 1..Len(fills) : fills[n].matched_id <= match_id
          /\ op' = "add_order" =>
                /\ \A n \in 1..Len(fills') : fills'[n].matched_id = match_id + n
                /\ match_id' = match_id + Len(fills')
          /\ op' = "remove_order" => match_id' = match_id
         ]_vars

\* an add_order with two fills, made after an earlier call had a fill
C10_Witness ==
    /\ op = "add_order"
    /\ Len(fills) = 2
    /\ fills[1].matched_id = 2
    /\ fills[2].matched_id = 3

\* the incoming order meets no opposing level it can trade with
CannotCross(order, b, a) ==
    IF order.side = "Buy"
    THEN \A p \in DOMAIN a : order.price < p
    ELSE \A p \in DOMAIN b : order.price > p

\* C11: empty match. An add_order with positive quantity that cannot cross
\* returns no fills, leaves every resting order and the match counter as
\* they were, and rests the incoming order with the quantity it was
\* submitted with, at the back of its level and in the index.
C11_EmptyMatch ==
    [][(op' = "add_order" /\ arg'.quantity > 0 /\ CannotCross(arg', bids, asks)) =>
            LET own == OwnOf(arg'.side, bids, asks)
                ownAfter == OwnOf(arg'.side, bids', asks')
            IN /\ fills' = <<>>
               /\ match_id' = match_id
               /\ OppOf(arg'.side, bids', asks') = OppOf(arg'.side, bids, asks)
               /\ DOMAIN ownAfter = DOMAIN own \cup {arg'.price}
               /\ \A p \in DOMAIN own \ {arg'.price} : ownAfter[p] = own[p]
               /\ ownAfter[arg'.price] = LevelOf(own, arg'.price) \o <<arg'>>
               /\ DOMAIN orders' = DOMAIN orders \cup {arg'.id}
               /\ \A id \in DOMAIN orders \ {arg'.id} : orders'[id] = orders[id]
               /\ orders'[arg'.id] = arg'
      ]_vars

\* an add_order that found opposing orders, none of them at a crossing price
C11_Witness ==
    /\ op = "add_order"
    /\ fills = <<>>
    /\ DOMAIN OppOf(arg.side, bids, asks) # {}
    /\ LevelOf(OwnOf(arg.side, bids, asks), arg.price) # <<>>
    /\ orders[arg.id] = arg

\* every order stored in the levels of a map has a positive quantity
AllPositive(m) == \A p \in DOMAIN m : \A j \in 1..Len(m[p]) : m[p][j].quantity > 0

\* new holds the last Len(new) orders of old, none with a larger quantity
NotGrownFromBack(old, new) ==
    /\ Len(new) <= Len(old)
    /\ \A j \in 1..Len(new) : new[j].quantity <= old[j + Len(old) - Len(new)].quantity

\* C12: stored quantities are positive and never increase. In every state
\* every order stored in a level of bids or asks has quantity > 0; an
\* add_order leaves the orders that stay on the opposing side with at most
\* their quantity and those of its own side with exactly theirs; a
\* remove_order leaves every remaining order with exactly its quantity.
C12_PositiveNeverGrows ==
    /\ AllPositive(bids) /\ AllPositive(asks)
    /\ [][/\ AllPositive(bids') /\ AllPositive(asks')
          /\ op' = "add_order" =>
                LET opp == OppOf(arg'.side, bids, asks)
                    oppAfter == OppOf(arg'.side, bids', asks')
                    own == OwnOf(arg'.side, bids, asks)
                    ownAfter == OwnOf(arg'.side, bids', asks')
                IN /\ DOMAIN oppAfter \subseteq DOMAIN opp
                   /\ \A p \in DOMAIN oppAfter : NotGrownFromBack(opp[p], oppAfter[p])
                   /\ \A p \in DOMAIN own : \A j \in 1..Len(own[p]) :
                        /\ p \in DOMAIN ownAfter
                        /\ j <= Len(ownAfter[p])
                        /\ ownAfter[p][j].quantity = own[p][j].quantity
          /\ op' = "remove_order" =>
                /\ SumQuantity(FlatAsc(bids')) + SumQuantity(FlatAsc(asks'))
                     = SumQuantity(FlatAsc(bids)) + SumQuantity(FlatAsc(asks))
                       - (IF ret' = None THEN 0
                          ELSE LevelOf(OwnOf(ret'.side, bids, asks), ret'.price)
                                    [Position(LevelOf(OwnOf(ret'.side, bids, asks), ret'.price),
                                              arg'.id) + 1].quantity)
                /\ \A p \in DOMAIN bids' : OneDeleted(bids[p], bids'[p])
                /\ \A p \in DOMAIN asks' : OneDeleted(asks[p], asks'[p])
         ]_vars

\* an add_order that consumed one order in full and left the next one of
\* the same level with a smaller, positive quantity
C12_Witness ==
    /\ op = "add_order"
    /\ Len(fills) = 2
    /\ fills[1].price = fills[2].price
    /\ fills[2].volume = 1
    /\ LET lvl == LevelOf(OppOf(arg.side, bids, asks), fills[1].price)
       IN lvl # <<>> /\ lvl[1].quantity = 1

\* C13: no empty price levels persist. After every add_order or
\* remove_order every key of bids and of asks maps to a non-empty vector.
C13_NoEmptyLevels ==
    (op \in {"add_order", "remove_order"}) =>
        /\ \A p \in DOMAIN bids : bids[p] # <<>>
        /\ \A p \in DOMAIN asks : asks[p] # <<>>

\* a call emptied a level that held an order: an add_order consumed the
\* only order of a level, or a remove_order took the only order of a level
C13_Witness ==
    \/ /\ op = "add_order"
       /\ fills # <<>>
       /\ fills[Len(fills)].price \notin DOMAIN OppOf(arg.side, bids, asks)
       /\ DOMAIN OppOf(arg.side, bids, asks) # {}
    \/ /\ op = "remove_order"
       /\ ret # None
       /\ ret.price \notin DOMAIN OwnOf(ret.side, bids, asks)
       /\ DOMAIN OwnOf(ret.side, bids, asks) # {}

\* the first n elements of a sequence
Prefix(v, n) == SubSeq(v, 1, n)

\* C15: price priority. The opposing orders are consumed in priority order
\* (asks from the lowest price for a Buy, bids from the highest for a Sell,
\* each level from its front): what is left of the opposing side is its
\* priority list without a prefix, so a worse-priced order is filled only
\* when every better-priced one is gone; fill prices never improve along
\* the fills; every fill is within the incoming limit; and an incoming
\* order left with quantity faces no crossing level.
C15_PricePriority ==
    [][op' = "add_order" =>
            LET before == Priority(arg'.side, bids, asks)
                after == Priority(arg'.side, bids', asks')
            IN /\ ConsumedFromFront(before, after)
               /\ \A n \in 1..Len(fills') :
                    IF arg'.side = "Buy"
                    THEN /\ fills'[n].price <= arg'.price
                         /\ n > 1 => fills'[n - 1].price <= fills'[n].price
                    ELSE /\ fills'[n].price >= arg'.price
                         /\ n > 1 => fills'[n - 1].price >= fills'[n].price
               /\ \A p \in DOMAIN OppOf(arg'.side, bids, asks) :
                    (IF arg'.side = "Buy" THEN p > arg'.price ELSE p < arg'.price) =>
                        LevelOf(OppOf(arg'.side, bids', asks'), p)
                            = OppOf(arg'.side, bids, asks)[p]
               /\ SumVolume(fills') < arg'.quantity =>
                    CannotCross(arg', bids', asks')
      ]_vars

\* an add_order filled at two prices, the better one first
C15_Witness ==
    /\ op = "add_order"
    /\ Len(fills) = 2
    /\ IF arg.side = "Buy" THEN fills[1].price < fills[2].price
       ELSE fills[1].price > fills[2].price

\* the number of orders of the given id stored in a map
Copies(m, id) == Len(FlatAsc(m)) - Len(Without(FlatAsc(m), id))

\* C16: residual resting. After add_order the incoming order rests exactly
\* when the quantity left after matching is positive. When it rests it is
\* the last order of the level at its price on its side, with the quantity
\* left, and the index maps its id to it. When nothing is left, its own
\* side and the index gained nothing, and an id that was not resting
\* before the call is in no level and not in the index.
C16_ResidualResting ==
    [][op' = "add_order" =>
            LET left == arg'.quantity - SumVolume(fills')
                own == OwnOf(arg'.side, bids, asks)
                ownAfter == OwnOf(arg'.side, bids', asks')
                lvl == LevelOf(ownAfter, arg'.price)
            IN IF left > 0
               THEN /\ lvl # <<>>
                    /\ lvl[Len(lvl)] = [arg' EXCEPT !.quantity = left]
                    /\ Prefix(lvl, Len(lvl) - 1) = LevelOf(own, arg'.price)
                    /\ Resting(ownAfter) = Resting(own) + 1
                    /\ arg'.id \in DOMAIN orders'
                    /\ orders'[arg'.id] = [arg' EXCEPT !.quantity = left]
               ELSE /\ ownAfter = own
                    /\ \A id \in DOMAIN orders' :
                            id \in DOMAIN orders /\ orders'[id] = orders[id]
                    /\ arg'.id \notin RestingIds =>
                            (arg'.id \notin RestingIds' /\ arg'.id \notin DOMAIN orders')
      ]_vars

\* an add_order that came to rest behind an order already in its level
C16_Witness ==
    /\ op = "add_order"
    /\ LET lvl == LevelOf(OwnOf(arg.side, bids, asks), arg.price)
       IN /\ Len(lvl) = 2
          /\ lvl[2] = arg
          /\ lvl[1].id # arg.id
    /\ orders[arg.id] = arg

\* C17: one fill per resting order touched. The n-th fill of an add_order
\* is against the n-th opposing order in priority order (so no order is
\* matched twice), its volume is the minimum of what the incoming order
\* had left at that step and that order's quantity, and is positive; at
\* most one opposing order is left partially filled, the last one touched,
\* and only when the incoming order is filled in full.
C17_OneFillPerOrder ==
    [][op' = "add_order" =>
            LET before == Priority(arg'.side, bids, asks)
                after == Priority(arg'.side, bids', asks')
                gone == Len(before) - Len(after)
            IN /\ Len(fills') <= Len(before)
               /\ \A n \in 1..Len(fills') :
                    /\ fills'[n].volume
                         = Min(arg'.quantity - SumVolume(Prefix(fills', n - 1)),
                               before[n].quantity)
                    /\ fills'[n].volume > 0
               /\ gone >= 0
               /\ Len(fills') \in {gone, gone + 1}
               /\ \A j \in 2..Len(after) : after[j] = before[gone + j]
               /\ Len(fills') = gone =>
                    \A j \in 1..Len(after) : after[j] = before[gone + j]
               /\ Len(fills') = gone + 1 =>
                    /\ after[1].quantity = before[gone + 1].quantity - fills'[gone + 1].volume
                    /\ after[1].quantity > 0
                    /\ SumVolume(fills') = arg'.quantity
      ]_vars

\* an add_order filled in full by one fill that left the order it touched
\* with part of its quantity
C17_Witness ==
    /\ op = "add_order"
    /\ Len(fills) = 1
    /\ fills[1].volume = arg.quantity
    /\ LET lvl == LevelOf(OppOf(arg.side, bids, asks), fills[1].price)
       IN /\ lvl # <<>>
          /\ lvl[1].id \in DOMAIN orders
          /\ orders[lvl[1].id].quantity = lvl[1].quantity + fills[1].volume

\* C18: terminal is absorbing. An add_order for another id and any
\* remove_order never put an id into a level or into the index, nor add a
\* copy of it; a remove_order that returned an order leaves its id out of
\* the index and a remove_order of an id that is not in the index returns
\* None (so a second cancel is not-found); an order consumed in full by an
\* add_order for another id has no index entry afterwards (so it cannot be
\* cancelled).
C18_TerminalAbsorbing ==
    [][/\ \A id \in Ids :
            (\/ op' = "remove_order"
             \/ op' = "add_order" /\ arg'.id # id) =>
                /\ Copies(bids', id) <= Copies(bids, id)
                /\ Copies(asks', id) <= Copies(asks, id)
                /\ id \in DOMAIN orders' => id \in DOMAIN orders
       /\ op' = "remove_order" =>
            /\ ret' # None => arg'.id \notin DOMAIN orders'
            /\ arg'.id \notin DOMAIN orders => (ret' = None /\ book' = book)
       /\ op' = "add_order" =>
            LET before == Priority(arg'.side, bids, asks)
                after == Priority(arg'.side, bids', asks')
            IN \A n \in 1..(Len(before) - Len(after)) :
                    before[n].id # arg'.id => before[n].id \notin DOMAIN orders'
      ]_vars

\* an add_order consumed an order of another id in full: that id is in no
\* level and not in the index
C18_Witness ==
    /\ op = "add_order"
    /\ fills # <<>>
    /\ \E id \in Ids \ {arg.id} : id \notin RestingIds /\ id \notin DOMAIN orders
    /\ arg.id \in DOMAIN orders

\* the index and the levels agree: the index has an entry for exactly the
\* ids stored in the levels, each id is stored once, and the entry's side
\* and price name the level that holds the order
IndexConsistent ==
    /\ DOMAIN orders = RestingIds
    /\ DistinctIds
    /\ \A id \in DOMAIN orders :
            /\ orders[id].id = id
            /\ Position(LevelOf(OwnOf(orders[id].side, bids, asks), orders[id].price), id) >= 0

\* C20: index consistency. When no add_order uses an id that is resting,
\* in every state the index and the levels agree, and remove_order of a
\* resting id returns the order and takes it out of its level.
C20_IndexConsistency ==
    /\ IndexConsistent
    /\ [][/\ IndexConsistent'
          /\ (op' = "remove_order" /\ arg'.id \in RestingIds) =>
                /\ ret' # None
                /\ ret'.id = arg'.id
                /\ arg'.id \notin RestingIds'
         ]_vars

\* a remove_order returned an order while another order stayed in the book
C20_Witness ==
    /\ op = "remove_order"
    /\ ret # None
    /\ RestingIds # {}
    /\ ret.id \notin RestingIds

\* the rows before the divider and the rows after it
AskRows(rows) == SubSeq(rows, 1, (CHOOSE d \in 1..Len(rows) : rows[d] = Divider) - 1)
BidRows(rows) == SubSeq(rows, (CHOOSE d \in 1..Len(rows) : rows[d] = Divider) + 1, Len(rows))

\* the rows list every order of the map once, the orders of one price in
\* the order of that level's vector
ListsLevels(rows, m) ==
    /\ Len(rows) = Resting(m)
    /\ \A p \in DOMAIN m :
        LET at == SelectSeq(rows, LAMBDA r : r.price = p)
        IN /\ Len(at) = Len(m[p])
           /\ \A j \in 1..Len(at) :
                /\ at[j].id = m[p][j].id
                /\ at[j].quantity = m[p][j].quantity
                /\ at[j].side = m[p][j].side

HighestFirst(rows) == \A j \in 1..(Len(rows) - 1) : rows[j].price >= rows[j + 1].price
LowestFirst(rows) == \A j \in 1..(Len(rows) - 1) : rows[j].price <= rows[j + 1].price

\* the rows hold exactly one divider
OneDivider(rows) == Len(SelectSeq(rows, LAMBDA r : r = Divider)) = 1

\* C14 as claimed: print_book lists each side from best to worst, the asks
\* with the lowest price first and the bids with the highest price first,
\* each level in arrival order, and changes nothing of the book.
C14_SnapshotBestFirst ==
    [][op' = "print_book" =>
            /\ book' = book
            /\ OneDivider(printed')
            /\ ListsLevels(AskRows(printed'), asks)
            /\ ListsLevels(BidRows(printed'), bids)
            /\ LowestFirst(AskRows(printed'))
            /\ HighestFirst(BidRows(printed'))
      ]_vars

\* C14 as amended: print_book lists the asks from the highest price to the
\* lowest (worst to best: the best ask is the last ask row, next to the
\* divider), then the bids from the highest price to the lowest (best to
\* worst), each level in arrival order, and changes nothing of the book.
C14_SnapshotLadder ==
    [][op' = "print_book" =>
            /\ book' = book
            /\ OneDivider(printed')
            /\ ListsLevels(AskRows(printed'), asks)
            /\ ListsLevels(BidRows(printed'), bids)
            /\ HighestFirst(AskRows(printed'))
            /\ HighestFirst(BidRows(printed'))
      ]_vars

\* a print_book of a book with asks at two prices
C14_Witness ==
    /\ op = "print_book"
    /\ Cardinality(DOMAIN asks) = 2
    /\ Len(printed) = 3
    /\ printed[1].price > printed[2].price

\* C19: every add_order call terminates. Taken loop step by loop step, from
\* every reachable book and for every incoming order (quantity <= 0
\* included), a call that has begun reaches its return, and at no point
\* has it made more fills than the opposing side held orders at the call.
C19_Terminates ==
    /\ [](pc # "idle" => Len(fills) <= loc.opposing)
    /\ (pc # "idle") ~> (pc = "idle")

\* a call has left its outer loop after two passes, one fill at each of two
\* prices, and is about to return
C19_Witness ==
    /\ pc = "rest"
    /\ Len(fills) = 2
    /\ fills[1].price # fills[2].price
    /\ loc.opposing = 2
====
